---- MODULE Spec2Model ----
(***************************************************************************)
(* A model of binr (src/binr.go): Get and the helpers it calls, run by     *)
(* concurrent callers over one shared file system.                         *)
(*                                                                         *)
(* Strings that the code takes apart (command names, versions, file names  *)
(* of links) are sequences of tokens: "foo-v1.0.0" is <<"foo","-","v1.0.0">>,*)
(* so that concatenation, HasPrefix and TrimPrefix are computed as the     *)
(* code computes them.  File contents are sequences of bytes.  A digest is *)
(* a number computed from the bytes; 0 is the empty string.                *)
(***************************************************************************)
EXTENDS Integers, Sequences, FiniteSets, TLC

\* ------------------------------------------------------------------ bounds
\* Get calls made in one run, over all callers.
MaxCalls == 2

\* ------------------------------------------------------------------ inputs
Procs == {1, 2}

NamespaceArgs == {"", "a", "b"}
CommandArgs == {<<>>, <<"foo">>}
VersionArgs == {<<>>, <<"junk">>, <<"v1.0.0">>, <<"v1.2.0">>}

\* The bodies the binary endpoint can serve.
Contents == {<<1>>, <<2>>}

EmptySum == 0

\* ------------------------------------------------------------- pure helpers
RECURSIVE Sha(_)
\* calculateChecksum's digest of a byte sequence: injective, as SHA-256 is
\* taken to be.  Never 0, the empty string.
Sha(data) ==
  IF data = <<>> THEN 1 ELSE Sha(SubSeq(data, 1, Len(data) - 1)) * 4 + data[Len(data)] + 1

\* semver.NewVersion on the version strings of the model.
SemverTable ==
  [t \in {"v1.0.0", "v1.2.0"} |-> IF t = "v1.0.0" THEN <<1, 0, 0>> ELSE <<1, 2, 0>>]

NewVersion(s) ==
  IF Len(s) = 1 /\ s[1] \in DOMAIN SemverTable
  THEN [ok |-> TRUE, v |-> SemverTable[s[1]]]
  ELSE [ok |-> FALSE, v |-> <<0, 0, 0>>]

\* (*semver.Version).GreaterThan
GreaterThan(a, b) ==
  \/ a[1] > b[1]
  \/ a[1] = b[1] /\ a[2] > b[2]
  \/ a[1] = b[1] /\ a[2] = b[2] /\ a[3] > b[3]

HasPrefix(s, pre) == Len(s) >= Len(pre) /\ SubSeq(s, 1, Len(pre)) = pre
TrimPrefix(s, pre) == IF HasPrefix(s, pre) THEN SubSeq(s, Len(pre) + 1, Len(s)) ELSE s

\* The file name of a link inside its namespace directory (Path, line 179).
LinkName(command, version) ==
  IF version = <<>> THEN command ELSE command \o <<"-">> \o version

\* Path: the error, or the place of the link (namespace directory, file name).
Path(namespace, command, version) ==
  IF namespace = "" THEN [err |-> "Path requires namespace", ns |-> "", name |-> <<>>]
  ELSE IF command = <<>> THEN [err |-> "Path requires command", ns |-> "", name |-> <<>>]
  ELSE IF version # <<>> /\ ~NewVersion(version).ok
       THEN [err |-> "Path requires semver", ns |-> "", name |-> <<>>]
  ELSE [err |-> "", ns |-> namespace, name |-> LinkName(command, version)]

NoPath == [err |-> "", ns |-> "", name |-> <<>>]

\* The values the tests give HOME and XDG_CONFIG_HOME, as path components;
\* <<>> is the empty string, with which os.UserHomeDir returns an error.
HomeArgs == {<<>>, <<"/", "users", "alice">>, <<"/", "users", "bob">>}
XdgArgs == {<<>>, <<"/", "users", "alice", ".xdg_config">>}

\* os.Getwd
Cwd == <<"/", "work">>

\* filepath.Join: empty elements are dropped.
Join(a, b) == a \o b

\* filepath.Clean, as far as the paths built here need it: "." elements go.
Clean(p) == SelectSeq(p, LAMBDA c : c # ".")

\* filepath.Abs: a relative path is joined to the working directory.
Abs(p) == IF p # <<>> /\ p[1] = "/" THEN Clean(p) ELSE Clean(Join(Cwd, p))

\* dotfilesPath ignoring XDG_CONFIG_HOME.
dotfilesPathHome(xdg, home) ==
  IF home = <<>> THEN <<".">> ELSE Join(home, <<".config">>)

\* dotfilesPath (lines 187-201)
dotfilesPath(xdg, home) ==
  LET homeErr == home = <<>>
      dotfiles == Join(home, <<".config">>)
  IN  IF homeErr /\ xdg = <<>> THEN <<".">>
      ELSE IF xdg # <<>> THEN xdg
      ELSE dotfiles

\* Path's results (line 181 for the path): the error, or the absolute
\* directory of the link and the link's file name in it.
PathAbs(xdg, home, namespace, command, version) ==
  LET pl == Path(namespace, command, version)
  IN  IF pl.err # ""
      THEN [err |-> pl.err, dir |-> <<>>, name |-> <<>>]
      ELSE [err |-> "",
            dir |-> Abs(Join(dotfilesPath(xdg, home), <<"binr", pl.ns>>)),
            name |-> pl.name]

NoPathAbs == [err |-> "", dir |-> <<>>, name |-> <<>>]

\* Validate without the check of the update option.
ValidateNoUpdate(namespace, command, version, source, update) ==
  IF namespace = "" THEN "requires namespace"
  ELSE IF command = <<>> THEN "requires command"
  ELSE IF version = <<>> THEN "requires a version"
  ELSE IF ~NewVersion(version).ok THEN "requires semver"
  ELSE IF ~source THEN "requires a Source"
  ELSE ""

\* Get's validation of its arguments (lines 55-67): the error, "" if none.
Validate(namespace, command, version, source, update) ==
  IF namespace = "" THEN "requires namespace"
  ELSE IF command = <<>> THEN "requires command"
  ELSE IF version = <<>> THEN "requires a version"
  ELSE IF ~NewVersion(version).ok THEN "requires semver"
  ELSE IF ~source THEN "requires a Source"
  ELSE IF update THEN "WithUpdate not implemented"
  ELSE ""

\* link's target (line 386): filepath.Join drops an empty element.
Target(sum) == IF sum = EmptySum THEN <<"..", ".cache">> ELSE <<"..", ".cache", sum>>

\* ------------------------------------------------------------------- state
VARIABLES
  pc,        \* each caller's place in Get
  arg,       \* the (namespace, command, version) of the caller's call
  sum,       \* Get's sum: the expected checksum, then cache's result
  tmp,       \* cache's tmpfile: its time stamp, 0 before cache chose one
  hasDone,   \* whether cache returned a cleanup function (done # nil)
  body,      \* the bytes of the response being copied
  off,       \* bytes of body written so far
  err,       \* Get's err result
  path,      \* Get's path result
  cacheDir,  \* whether <base>/binr/.cache exists
  files,     \* the files in the cache directory: name, bytes, callers holding it open
  nsDirs,    \* the namespace directories that exist
  links,     \* the symlinks in the namespace directories
  calls,     \* Get calls made so far
  returned,  \* the paths Get has returned with a nil error, and how
  env,       \* the environment: HOME and XDG_CONFIG_HOME
  pathIn,    \* the arguments of the last call of Path by a user of the package
  pathOut    \* what that call returned

vars ==
  <<pc, arg, sum, tmp, hasDone, body, off, err, path,
    cacheDir, files, nsDirs, links, calls, returned, env, pathIn, pathOut>>

\* What only the environment's owner and direct callers of Path change.
pathvars == <<env, pathIn, pathOut>>

fsvars == <<cacheDir, files, nsDirs, links>>

NoArg == [ns |-> "", cmd |-> <<>>, ver |-> <<>>]

TmpName(t) == <<"partial", t>>
SumName(d) == <<"sum", d>>

FileAt(name) == {f \in files : f.name = name}
Exists(name) == FileAt(name) # {}

LinkAt(ns, name) == {l \in links : l.ns = ns /\ l.name = name}

\* os.Stat of a link's place: follows the link to its target.
StatLink(ns, name) ==
  \E l \in LinkAt(ns, name) :
    IF Len(l.target) = 2 THEN cacheDir ELSE Exists(SumName(l.target[3]))

\* got finding nothing installed.
gotNever(p) == FALSE

\* got (lines 204-214)
got(p) == p.err = "" /\ StatLink(p.ns, p.name)

\* cached (lines 336-343)
cached(checksum) == checksum # EmptySum /\ Exists(SumName(checksum))

Init ==
  /\ pc = [p \in Procs |-> "idle"]
  /\ arg = [p \in Procs |-> NoArg]
  /\ sum = [p \in Procs |-> EmptySum]
  /\ tmp = [p \in Procs |-> 0]
  /\ hasDone = [p \in Procs |-> FALSE]
  /\ body = [p \in Procs |-> <<>>]
  /\ off = [p \in Procs |-> 0]
  /\ err = [p \in Procs |-> ""]
  /\ path = [p \in Procs |-> NoPath]
  /\ cacheDir = FALSE
  /\ files = {}
  /\ nsDirs = {}
  /\ links = {}
  /\ calls = 0
  /\ returned = {}
  /\ env = [home |-> <<>>, xdg |-> <<>>]
  /\ pathIn = NoArg
  /\ pathOut = NoPathAbs

\* Get returns err and, for the caller to use when err is nil, path pth; its
\* arguments and locals go out of scope.
Return(p, pth, e) ==
  /\ pc' = [pc EXCEPT ![p] = "done"]
  /\ err' = [err EXCEPT ![p] = e]
  /\ path' = [path EXCEPT ![p] = IF e = "" THEN pth ELSE NoPath]
  /\ arg' = [arg EXCEPT ![p] = NoArg]
  /\ sum' = [sum EXCEPT ![p] = EmptySum]
  /\ tmp' = [tmp EXCEPT ![p] = 0]
  /\ hasDone' = [hasDone EXCEPT ![p] = FALSE]
  /\ body' = [body EXCEPT ![p] = <<>>]
  /\ off' = [off EXCEPT ![p] = 0]

\* A path that Get returned with a nil error, after finding the command locally
\* (line 78, "found") or after linking it (line 101, "linked").
Returned(pth, how) == [ns |-> pth.ns, name |-> pth.name, how |-> how]

\* Get goes on to its step l.
Goto(p, l) ==
  /\ pc' = [pc EXCEPT ![p] = l]
  /\ UNCHANGED <<arg, path>>



\* ------------------------------------------------------------------ actions
InFlight(p) == pc[p] \notin {"idle", "done", "panic"}

\* Callers are interchangeable, so a call that starts while no other call is
\* running is caller 1's, and caller 2's calls start while caller 1's runs.
Overlaps(p) == p = 1 \/ InFlight(1)

\* Namespaces are opaque and interchangeable: the first namespace that a run
\* names is called "a".
NamespacesNow == IF cacheDir THEN NamespaceArgs ELSE NamespaceArgs \ {"b"}

\* Get, lines 45-80: validation, setup, Path and the already-installed check.
GetCall(p, ns, cmd, ver, source, update) ==
  /\ pc[p] \in {"idle", "done"}
  /\ UNCHANGED pathvars
  /\ Overlaps(p)
  /\ calls < MaxCalls
  /\ calls' = calls + 1
  /\ LET e == Validate(ns, cmd, ver, source, update)
         pth == Path(ns, cmd, ver)
     IN  IF e # ""
         THEN /\ Return(p, NoPath, e)
              /\ UNCHANGED <<fsvars, returned>>
         ELSE /\ cacheDir' = TRUE            \* setup
              /\ UNCHANGED <<files, nsDirs, links>>
              /\ IF pth.err # ""
                 THEN /\ Return(p, NoPath, pth.err)
                      /\ UNCHANGED returned
                 ELSE IF got(pth)
                 THEN /\ Return(p, pth, "")
                      /\ returned' = returned \cup {Returned(pth, "found")}
                 ELSE /\ pc' = [pc EXCEPT ![p] = "source"]
                      /\ arg' = [arg EXCEPT ![p] = [ns |-> ns, cmd |-> cmd, ver |-> ver]]
                      /\ path' = [path EXCEPT ![p] = pth]
                      /\ err' = [err EXCEPT ![p] = ""]
                      /\ UNCHANGED <<sum, tmp, hasDone, body, off, returned>>

\* A caller calls Get with some arguments and options.
GetStart(p) ==
  \E ns \in NamespacesNow, cmd \in CommandArgs, ver \in VersionArgs,
     source \in BOOLEAN, update \in BOOLEAN :
    GetCall(p, ns, cmd, ver, source, update)

\* Byte values are interchangeable: the first body that a run names is <<1>>.
Named == files # {} \/ \E q \in Procs : sum[q] # EmptySum \/ body[q] # <<>>
ContentsNow == IF Named THEN Contents ELSE {<<1>>}

\* What the checksum endpoint can answer: the digest of a body that the binary
\* endpoint can serve, which need not be the body it serves to this call.
ServedSums == {Sha(<<1>>)}

\* What the resolver can return (line 82): an error, or the source URL with
\* or without a checksum URL.
SourceResults ==
  {[err |-> "source error", sumURL |-> FALSE],
   [err |-> "", sumURL |-> FALSE],
   [err |-> "", sumURL |-> TRUE]}

\* What getChecksum can return for a checksum URL (lines 223-239): an error
\* (transport, or a status other than 200), or the body served.
ChecksumResults ==
  {[err |-> "checksum fetch error", sum |-> EmptySum]}
    \cup {[err |-> "", sum |-> s] : s \in ServedSums}

\* Get going on to the cache although the resolver returned an error.
GetSourceIgnoringErr(p, src, chk) ==
  /\ Goto(p, "cache")
  /\ UNCHANGED <<sum, tmp, hasDone, body, off, err>>

\* Get, lines 82-90, with the resolver returning src and, if src has a
\* checksum URL, getChecksum returning chk.
GetSourceWith(p, src, chk) ==
  IF src.err # ""
  THEN Return(p, path[p], src.err)
  ELSE IF ~src.sumURL
  THEN /\ Goto(p, "cache")
       /\ UNCHANGED <<sum, tmp, hasDone, body, off, err>>
  ELSE IF chk.err # ""
  THEN Return(p, path[p], chk.err)
  ELSE /\ sum' = [sum EXCEPT ![p] = chk.sum]
       /\ Goto(p, "cache")
       /\ UNCHANGED <<tmp, hasDone, body, off, err>>

\* Get, lines 82-90: the resolver, then getChecksum (lines 219-241).
GetSource(p) ==
  /\ pc[p] = "source"
  /\ UNCHANGED pathvars
  /\ UNCHANGED <<fsvars, calls, returned>>
  /\ \E src \in SourceResults : \E chk \in ChecksumResults :
       GetSourceWith(p, src, chk)

\* The time stamps that name a temporary file in the cache directory or that a
\* running call holds.
StampsInUse ==
  {f.name[2] : f \in {g \in files : g.name[1] = "partial"}} \cup
  {tmp[q] : q \in {r \in Procs : tmp[r] > 0}}

\* time.Now() formatted to the millisecond of local time (lines 259-260): a
\* stamp in use (read within the same millisecond, or after the clock was set
\* back), or a stamp not in use, which is given the least unused number.
Stamps ==
  StampsInUse \cup {CHOOSE t \in 1..(Cardinality(StampsInUse) + 1) :
                      /\ t \notin StampsInUse
                      /\ \A u \in 1..(t - 1) : u \in StampsInUse}

\* cache, lines 249-276: the cache hit, or the choice of the temporary file.
CacheStart(p) ==
  /\ pc[p] = "cache"
  /\ UNCHANGED pathvars
  /\ UNCHANGED <<fsvars, calls, returned, body, off, err>>
  /\ IF cached(sum[p])
     THEN /\ sum' = [sum EXCEPT ![p] = EmptySum]  \* the named results, unset
          /\ Goto(p, "mkdir")
          /\ UNCHANGED <<tmp, hasDone>>
     ELSE /\ \E t \in Stamps : tmp' = [tmp EXCEPT ![p] = t]
          /\ hasDone' = [hasDone EXCEPT ![p] = TRUE]
          /\ Goto(p, "download")
          /\ UNCHANGED sum

\* How the binary endpoint can answer the request of lines 307-321: not at
\* all, with a status other than 200, with another Content-Type than the one
\* expected, or with 200 and the expected Content-Type.
Responses == {"transport error", "status", "content type", "ok"}

\* download taking every answer for a good one.
DownloadAnyResponse(p, res) ==
  IF Exists(TmpName(tmp[p]))
  THEN Return(p, path[p], "existing download file")
  ELSE /\ Goto(p, "open")
       /\ UNCHANGED <<sum, tmp, hasDone, body, off, err>>

\* download, lines 303-321, the endpoint answering with res; the three
\* errors of lines 313, 317 and 320 are one value here.
DownloadWith(p, res) ==
  IF Exists(TmpName(tmp[p]))
  THEN Return(p, path[p], "existing download file")
  ELSE IF res # "ok"
  THEN Return(p, path[p], "http error")
  ELSE /\ Goto(p, "open")
       /\ UNCHANGED <<sum, tmp, hasDone, body, off, err>>

\* download, lines 303-321: the stale-file check and the request.
Download(p) ==
  /\ pc[p] = "download"
  /\ UNCHANGED pathvars
  /\ UNCHANGED <<fsvars, calls, returned>>
  /\ \E res \in Responses : DownloadWith(p, res)

\* os.OpenFile(outPath, O_WRONLY|O_CREATE|O_TRUNC): the files after p opened name.
OpenTrunc(p, name) ==
  IF Exists(name)
  THEN {IF f.name = name THEN [f EXCEPT !.data = <<>>, !.open = @ \cup {p}] ELSE f : f \in files}
  ELSE files \cup {[name |-> name, data |-> <<>>, open |-> {p}]}

\* file.Close(): the files after p closed the one it holds.
Close(p, fs) == {[f EXCEPT !.open = @ \ {p}] : f \in fs}

\* One write of io.Copy: byte b at offset n (from 0) of a file's bytes; a gap
\* reads as zeros.
WriteAt(data, n, b) ==
  [i \in 1..(IF Len(data) > n + 1 THEN Len(data) ELSE n + 1) |->
     IF i = n + 1 THEN b ELSE IF i <= Len(data) THEN data[i] ELSE 0]

\* download, line 322
DownloadOpen(p) ==
  /\ pc[p] = "open"
  /\ UNCHANGED pathvars
  /\ UNCHANGED <<cacheDir, nsDirs, links, calls, returned>>
  /\ UNCHANGED <<sum, tmp, hasDone, body, off, err>>
  /\ Goto(p, "copy")
  /\ files' = OpenTrunc(p, TmpName(tmp[p]))

\* The bodies that the response can still turn out to be, given the bytes
\* read from it so far.
Bodies(read) == {c \in ContentsNow : Len(c) > Len(read) /\ SubSeq(c, 1, Len(read)) = read}

\* download, lines 326-331: io.Copy, one byte at a time, which the context's
\* cancellation or the transport can end at any byte; the file is closed as
\* download returns.  body is the bytes read from the response so far.
DownloadCopy(p) ==
  /\ pc[p] = "copy"
  /\ UNCHANGED pathvars
  /\ UNCHANGED <<cacheDir, nsDirs, links, calls, returned>>
  /\ \/ \E c \in Bodies(body[p]) :
          LET b == c[Len(body[p]) + 1]
              written == {IF p \in f.open
                          THEN [f EXCEPT !.data = WriteAt(@, off[p], b)]
                          ELSE f : f \in files}
          IN  IF Len(body[p]) + 1 < Len(c)
              THEN /\ files' = written
                   /\ body' = [body EXCEPT ![p] = Append(@, b)]
                   /\ off' = [off EXCEPT ![p] = @ + 1]
                   /\ UNCHANGED <<pc, arg, path, sum, tmp, hasDone, err>>
              ELSE /\ files' = Close(p, written)
                   /\ body' = [body EXCEPT ![p] = Append(@, b)]
                   /\ off' = [off EXCEPT ![p] = @ + 1]
                   /\ Goto(p, "checksum")
                   /\ UNCHANGED <<sum, tmp, hasDone, err>>
     \/ /\ files' = Close(p, files)
        /\ Return(p, path[p], "copy error")

\* verify accepting every file.
verifyAccepts(data, checksum) == ""

\* verify (lines 346-360): the error of checking bytes against a checksum.
verify(data, checksum) == IF Sha(data) # checksum THEN "checksum mismatch" ELSE ""

\* cache, lines 282-290: calculateChecksum of the temporary file, adopted as
\* the checksum when none was given, compared with it otherwise.
CacheChecksum(p) ==
  /\ pc[p] = "checksum"
  /\ UNCHANGED pathvars
  /\ UNCHANGED <<fsvars, calls, returned>>
  /\ IF ~Exists(TmpName(tmp[p]))
     THEN Return(p, path[p], "unable to calculate checksum")
     ELSE LET f == CHOOSE f \in FileAt(TmpName(tmp[p])) : TRUE
          IN  IF sum[p] = EmptySum
              THEN /\ sum' = [sum EXCEPT ![p] = Sha(f.data)]
                   /\ Goto(p, "rename")
                   /\ UNCHANGED <<tmp, hasDone, body, off, err>>
              ELSE IF verify(f.data, sum[p]) # ""
                   THEN Return(p, path[p], verify(f.data, sum[p]))
                   ELSE /\ Goto(p, "rename")
                        /\ UNCHANGED <<sum, tmp, hasDone, body, off, err>>

\* os.Rename(from, to) inside the cache directory: the files afterwards.
Rename(from, to) ==
  {IF f.name = from THEN [f EXCEPT !.name = to] ELSE f : f \in {g \in files : g.name # to}}

\* cache, lines 292-298: the temporary file moved to its checksum's name.
CacheRename(p) ==
  /\ pc[p] = "rename"
  /\ UNCHANGED pathvars
  /\ UNCHANGED <<cacheDir, nsDirs, links, calls, returned>>
  /\ IF ~Exists(TmpName(tmp[p]))
     THEN /\ Return(p, path[p], "rename error")
          /\ UNCHANGED files
     ELSE /\ files' = Rename(TmpName(tmp[p]), SumName(sum[p]))
          /\ Goto(p, "mkdir")
          /\ UNCHANGED <<sum, tmp, hasDone, body, off, err>>

\* The panic of line 453 when highest is nil.
NilPanic == "panic: nil pointer dereference"

\* Get's deferred cleanup is reached with the error link returned.
ToCleanup(p, e) ==
  /\ pc' = [pc EXCEPT ![p] = "cleanup"]
  /\ err' = [err EXCEPT ![p] = e]
  /\ UNCHANGED <<arg, path, sum, tmp, hasDone, body, off>>

\* link, lines 381-394: os.Mkdir of the namespace directory.
LinkMkdir(p) ==
  /\ pc[p] = "mkdir"
  /\ UNCHANGED pathvars
  /\ UNCHANGED <<cacheDir, files, links, calls, returned>>
  /\ IF arg[p].ns \in nsDirs
     THEN /\ ToCleanup(p, "mkdir: file exists")
          /\ UNCHANGED nsDirs
     ELSE /\ nsDirs' = nsDirs \cup {arg[p].ns}
          /\ Goto(p, "symlink")
          /\ UNCHANGED <<sum, tmp, hasDone, body, off, err>>

\* Symlink writing to every namespace directory.
SymlinkShared(target, ns, name) ==
  links \cup {[ns |-> n, name |-> name, target |-> target] : n \in nsDirs \cup {ns}}

\* Symlink with the namespace directories being one directory.
SymlinkFlat(target, ns, name) ==
  {l \in links : l.name # name}
    \cup {[ns |-> n, name |-> name, target |-> target] : n \in nsDirs \cup {ns}}

\* Symlink emptying the directory it writes to.
SymlinkAlone(target, ns, name) ==
  {l \in links : l.ns # ns} \cup {[ns |-> ns, name |-> name, target |-> target]}

\* os.Symlink(target, <ns>/<name>): the links afterwards.
Symlink(target, ns, name) == links \cup {[ns |-> ns, name |-> name, target |-> target]}

\* link, lines 395-397: the versioned link.
LinkVersioned(p) ==
  /\ pc[p] = "symlink"
  /\ UNCHANGED pathvars
  /\ UNCHANGED <<cacheDir, files, nsDirs, calls, returned>>
  /\ IF LinkAt(path[p].ns, path[p].name) # {}
     THEN /\ ToCleanup(p, "symlink: file exists")
          /\ UNCHANGED links
     ELSE /\ links' = Symlink(Target(sum[p]), path[p].ns, path[p].name)
          /\ Goto(p, "newer")
          /\ UNCHANGED <<sum, tmp, hasDone, body, off, err>>

\* The highest of a non-empty set of versions (lines 448-450).
Highest(vs) == CHOOSE v \in vs : \A w \in vs : ~GreaterThan(w, v)

\* isNewer (lines 419-454) over the entries of the namespace directory, none
\* of which is a directory: .ok, .err, and .nil when no entry has the prefix
\* and line 453 dereferences a nil *semver.Version.
isNewer(namespace, command, version) ==
  LET prefix == command \o <<"-">>
      names == {l.name : l \in {k \in links : k.ns = namespace}}
      mine == {n \in names : HasPrefix(n, prefix)}
      bad == {n \in mine : ~NewVersion(TrimPrefix(n, prefix)).ok}
      vs == {NewVersion(TrimPrefix(n, prefix)).v : n \in mine \ bad}
  IN  IF ~NewVersion(version).ok
      THEN [ok |-> FALSE, err |-> "invalid semver", nil |-> FALSE]
      ELSE IF bad # {}
      THEN [ok |-> FALSE, err |-> "not of the expected form", nil |-> FALSE]
      ELSE IF vs = {}
      THEN [ok |-> FALSE, err |-> "", nil |-> TRUE]
      ELSE [ok |-> ~GreaterThan(Highest(vs), NewVersion(version).v), err |-> "", nil |-> FALSE]

\* link, lines 399-402
LinkIsNewer(p) ==
  /\ pc[p] = "newer"
  /\ UNCHANGED pathvars
  /\ UNCHANGED <<fsvars, calls, returned>>
  /\ LET r == isNewer(arg[p].ns, arg[p].cmd, arg[p].ver)
     IN  IF r.nil
         THEN ToCleanup(p, NilPanic)
         ELSE IF ~r.ok \/ r.err # ""
         THEN ToCleanup(p, r.err)
         ELSE /\ Goto(p, "unversioned")
              /\ UNCHANGED <<sum, tmp, hasDone, body, off, err>>

\* link, lines 404-414: the unversioned link.
LinkUnversioned(p) ==
  /\ pc[p] = "unversioned"
  /\ UNCHANGED pathvars
  /\ UNCHANGED <<cacheDir, files, nsDirs, calls, returned>>
  /\ LET u == Path(arg[p].ns, arg[p].cmd, <<>>)
     IN  IF LinkAt(u.ns, u.name) # {}
         THEN /\ ToCleanup(p, "symlink: file exists")
              /\ UNCHANGED links
         ELSE /\ links' = Symlink(Target(sum[p]), u.ns, u.name)
              /\ ToCleanup(p, "")

\* The files after cache's done() (lines 262-276) ran for temporary file name.
Remove(name) == {f \in files : f.name # name}

\* Get, line 96: the deferred cleanup(), called as Get returns or panics;
\* calling the nil function that a cache hit returned panics.
Cleanup(p) ==
  /\ pc[p] = "cleanup"
  /\ UNCHANGED pathvars
  /\ UNCHANGED <<cacheDir, nsDirs, links, calls>>
  /\ IF ~hasDone[p]
     THEN /\ Goto(p, "panic")
          /\ UNCHANGED <<files, sum, tmp, hasDone, body, off, err, returned>>
     ELSE /\ files' = Remove(TmpName(tmp[p]))
          /\ IF err[p] = NilPanic
             THEN /\ Goto(p, "panic")
                  /\ UNCHANGED <<sum, tmp, hasDone, body, off, err, returned>>
             ELSE /\ Return(p, path[p], err[p])
                  /\ returned' = IF err[p] = "" THEN returned \cup {Returned(path[p], "linked")}
                                 ELSE returned

Next ==
  \E p \in Procs :
    \/ GetStart(p)
    \/ GetSource(p)
    \/ CacheStart(p)
    \/ Download(p)
    \/ DownloadOpen(p)
    \/ DownloadCopy(p)
    \/ CacheChecksum(p)
    \/ CacheRename(p)
    \/ LinkMkdir(p)
    \/ LinkVersioned(p)
    \/ LinkIsNewer(p)
    \/ LinkUnversioned(p)
    \/ Cleanup(p)

Spec == Init /\ [][Next]_vars

\* ------------------------------------------------ steps that always return
\* The next step of caller p's running Get call.
Step(p) ==
  \/ GetSource(p)
  \/ CacheStart(p)
  \/ Download(p)
  \/ DownloadOpen(p)
  \/ DownloadCopy(p)
  \/ CacheChecksum(p)
  \/ CacheRename(p)
  \/ LinkMkdir(p)
  \/ LinkVersioned(p)
  \/ LinkIsNewer(p)
  \/ LinkUnversioned(p)
  \/ Cleanup(p)

\* Every network and file system operation returns, and the scheduler runs
\* every goroutine that can run: a call that has a next step takes it.
FairSpec == Spec /\ \A p \in Procs : WF_vars(Step(p))

\* The order of Get's steps in its text.
StepOrder ==
  <<"source", "cache", "download", "open", "copy", "checksum", "rename",
    "mkdir", "symlink", "newer", "unversioned", "cleanup", "done">>

\* The place of step l in that order; a panic ends the call as a return does.
Rank(l) ==
  IF l = "panic" THEN Len(StepOrder)
  ELSE CHOOSE i \in 1..Len(StepOrder) : StepOrder[i] = l

\* No Get call and no call of Path has been made.
NoCalls ==
  /\ pc = [p \in Procs |-> "idle"]
  /\ arg = [p \in Procs |-> NoArg]
  /\ sum = [p \in Procs |-> EmptySum]
  /\ tmp = [p \in Procs |-> 0]
  /\ hasDone = [p \in Procs |-> FALSE]
  /\ body = [p \in Procs |-> <<>>]
  /\ off = [p \in Procs |-> 0]
  /\ err = [p \in Procs |-> ""]
  /\ path = [p \in Procs |-> NoPath]
  /\ calls = 0
  /\ returned = {}
  /\ env = [home |-> <<>>, xdg |-> <<>>]
  /\ pathIn = NoArg
  /\ pathOut = NoPathAbs

\* --------------------------------- a namespace directory with a foreign file
\* A file that the user, or another program, put into namespace directory
\* "a": its name has the form <command>-<suffix>, the suffix being no semver.
\* isNewer reads names only (lines 434-447), so it is kept with the links.
ForeignFile == [ns |-> "a", name |-> <<"foo", "-", "junk">>, target |-> <<"foreign">>]

\* The file system that an earlier run of binr left (the cache directory and
\* namespace directory "a" exist), with the foreign file added since.
InitCorrupt ==
  /\ NoCalls
  /\ cacheDir = TRUE
  /\ files = {}
  /\ nsDirs = {"a"}
  /\ links = {ForeignFile}

CorruptSpec == InitCorrupt /\ [][Next]_vars

\* ------------------------------------------- a link whose target is gone
\* The versioned link that an earlier Get made for version v1.0.0 of command
\* foo in namespace "a"; its cache entry has been deleted since.
DanglingLink ==
  [ns |-> "a", name |-> <<"foo", "-", "v1.0.0">>, target |-> Target(Sha(<<1>>))]

\* The file system that an earlier run of binr left, the cache emptied since.
InitDangling ==
  /\ NoCalls
  /\ cacheDir = TRUE
  /\ files = {}
  /\ nsDirs = {"a"}
  /\ links = {DanglingLink}

DanglingSpec == InitDangling /\ [][Next]_vars

\* --------------------------------------- another command in the namespace
\* The command whose name is foo, a hyphen and bar.
OtherCommand == <<"foo", "-", "bar">>

\* What Get("a", "foo-bar", "v1.0.0", src) left, the bytes served being <<1>>:
\* the cache entry, the namespace directory, and the versioned and the
\* unversioned link of foo-bar.
InitOtherCommand ==
  /\ NoCalls
  /\ cacheDir = TRUE
  /\ files = {[name |-> SumName(Sha(<<1>>)), data |-> <<1>>, open |-> {}]}
  /\ nsDirs = {"a"}
  /\ links = {[ns |-> "a", name |-> LinkName(OtherCommand, <<"v1.0.0">>),
               target |-> Target(Sha(<<1>>))],
              [ns |-> "a", name |-> LinkName(OtherCommand, <<>>),
               target |-> Target(Sha(<<1>>))]}

OtherCommandSpec == InitOtherCommand /\ [][Next]_vars

\* ------------------------------------------------ Path, called by its users
\* What Get's calls hold and count.
getvars == <<pc, arg, sum, tmp, hasDone, body, off, err, path, calls, returned>>

\* The environment is set, as the tests set it before each call of Path.
Setenv(home, xdg) ==
  /\ env' = [home |-> home, xdg |-> xdg]
  /\ UNCHANGED <<pathIn, pathOut, getvars, fsvars>>

\* A user of the package calls Path.
PathCall(namespace, command, version) ==
  /\ pathIn' = [ns |-> namespace, cmd |-> command, ver |-> version]
  /\ pathOut' = PathAbs(env.xdg, env.home, namespace, command, version)
  /\ UNCHANGED <<env, getvars, fsvars>>

PathNext ==
  \/ \E home \in HomeArgs, xdg \in XdgArgs : Setenv(home, xdg)
  \/ \E ns \in NamespaceArgs, cmd \in CommandArgs, ver \in VersionArgs : PathCall(ns, cmd, ver)

PathSpec == Init /\ [][PathNext]_vars

\* ------------------------------------------------------------------ claims
Others(p) == Procs \ {p}

\* No other call is running: the calls so far were made one after the other
\* as far as p's call is concerned.
Alone(p) == \A q \in Others(p) : ~InFlight(q)

\* The places of the links that Get has returned with a nil error.
ReturnedPaths == {[err |-> "", ns |-> r.ns, name |-> r.name] : r \in returned}

ValidTriples ==
  {t \in [ns : NamespaceArgs, cmd : CommandArgs, ver : VersionArgs] :
     Validate(t.ns, t.cmd, t.ver, TRUE, FALSE) = ""}

\* C1: once a Get for a triple has returned without error, every later Get
\* for the same triple returns at once, without error, with the same path,
\* and goes on to no resolver call, checksum fetch or download; the file
\* system is as it was.
C1_RepeatedGetIsFound ==
  [][\A p \in Procs :
       (calls' # calls) =>
         \A t \in ValidTriples :
           (/\ Path(t.ns, t.cmd, t.ver) \in ReturnedPaths
            /\ GetCall(p, t.ns, t.cmd, t.ver, TRUE, FALSE))
             => /\ pc'[p] = "done"
                /\ err'[p] = ""
                /\ path'[p] = Path(t.ns, t.cmd, t.ver)
                /\ UNCHANGED fsvars]_vars

\* One caller installed a triple and then got it again, and was told it was
\* found locally.
C1_Witness ==
  /\ pc[2] = "idle"
  /\ pc[1] = "done" /\ err[1] = "" /\ calls = 2
  /\ \E r \in returned :
       /\ r.how = "found"
       /\ [r EXCEPT !.how = "linked"] \in returned
       /\ path[1] = [err |-> "", ns |-> r.ns, name |-> r.name]

\* The versioned links of a command in a namespace, and a link's version.
VersionedLinks(ns, cmd) ==
  {l \in links : /\ l.ns = ns
                 /\ HasPrefix(l.name, cmd \o <<"-">>)
                 /\ NewVersion(TrimPrefix(l.name, cmd \o <<"-">>)).ok}

VersionOf(name, cmd) == NewVersion(TrimPrefix(name, cmd \o <<"-">>)).v

\* C2: when a Get, no other call being in progress, has its cache entry and
\* has run link, the unversioned link of its (namespace, command)
\* exists and has the target of the versioned link of the highest version
\* installed for the pair, the version of this Get included.
C2_UnversionedIsHighest ==
  \A p \in Procs :
    (pc[p] = "cleanup" /\ Alone(p)) =>
      LET vl == VersionedLinks(arg[p].ns, arg[p].cmd)
          top == Highest({VersionOf(l.name, arg[p].cmd) : l \in vl}
                         \cup {NewVersion(arg[p].ver).v})
      IN  \E u \in LinkAt(arg[p].ns, arg[p].cmd) :
            \E l \in vl : VersionOf(l.name, arg[p].cmd) = top /\ u.target = l.target

\* C3: every committed cache entry, a file of the cache directory named by a
\* digest, holds bytes whose digest is its name.
C3_EntryNameIsDigest ==
  \A f \in files : f.name[1] = "sum" => Sha(f.data) = f.name[2]

TargetSum(l) == IF Len(l.target) = 3 THEN l.target[3] ELSE EmptySum

\* C5: when a Get, no other call being in progress, got, by download or by
\* a cache hit, the bytes that an earlier Get installed for another
\* (namespace, command), it returns no error and its versioned link has the
\* target of the earlier one, the one cache entry of these bytes.
C5_SameContentSharesEntry ==
  \A p \in Procs :
    (pc[p] = "cleanup" /\ Alone(p)) =>
      \A r \in returned :
        \A k \in LinkAt(r.ns, r.name) :
          (/\ r.how = "linked"
           /\ r.ns # arg[p].ns
           /\ \/ hasDone[p] /\ sum[p] = TargetSum(k)
              \/ ~hasDone[p] /\ {f.name : f \in files} = {SumName(TargetSum(k))})
            => /\ err[p] = ""
               /\ \E l \in LinkAt(path[p].ns, path[p].name) : l.target = k.target
               /\ Cardinality(FileAt(SumName(TargetSum(k)))) = 1

\* C6: when a Get, no other call being in progress, has its cache entry and
\* has run link for a version lower than one installed for the same
\* (namespace, command), it returns no error, its versioned link exists with
\* its own cache entry as target, and the unversioned link has the target of
\* the higher version's link.
C6_LowerVersionInstalls ==
  \A p \in Procs :
    (pc[p] = "cleanup" /\ Alone(p)) =>
      \A r \in returned :
        (/\ r.how = "linked"
         /\ r.ns = arg[p].ns
         /\ HasPrefix(r.name, arg[p].cmd \o <<"-">>)
         /\ GreaterThan(VersionOf(r.name, arg[p].cmd), NewVersion(arg[p].ver).v))
          => /\ err[p] = ""
             /\ \E l \in LinkAt(path[p].ns, path[p].name) :
                  TargetSum(l) # EmptySum /\ Exists(SumName(TargetSum(l)))
             /\ \E u \in LinkAt(arg[p].ns, arg[p].cmd) :
                  \E h \in LinkAt(r.ns, r.name) : u.target = h.target

\* A link whose file name is a command's name followed by a version.
IsVersioned(l) ==
  \E cmd \in CommandArgs \ {<<>>} : \E ver \in VersionArgs \ {<<>>} :
    l.name = LinkName(cmd, ver)

\* C7: a versioned link, once created, is the one link at its place, with
\* the same target, after every step of every call.
C7_VersionedLinkIsKept ==
  [][\A l \in links :
       IsVersioned(l) => {k \in links' : k.ns = l.ns /\ k.name = l.name} = {l}]_vars

\* A later Get ran link in a namespace that holds a versioned link.
C7_Witness ==
  /\ \E l \in links : IsVersioned(l)
  /\ \E p \in Procs : pc[p] = "done" /\ err[p] = "mkdir: file exists"

\* C8: of two Get calls running at once for different triples, the one that
\* has its cache entry and has run link got no error from it.
C8_DifferentTriplesBothLink ==
  \A p \in Procs : \A q \in Others(p) :
    (pc[p] = "cleanup" /\ InFlight(q) /\ path[p] # path[q]) => err[p] = ""

\* C9: of two Get calls running at once for the same triple, both past the
\* already-installed check, the one that has its cache entry and has run link
\* got no error from it.
C9_SameTripleLoserSucceeds ==
  \A p \in Procs : \A q \in Others(p) :
    (pc[p] = "cleanup" /\ InFlight(q) /\ path[p] = path[q]) => err[p] = ""

\* C10: a Get with an empty namespace, command or version, a version that is
\* no semver, no resolver, or the update option returns an error at once:
\* the cache directory is not created, no resolver call, download or link
\* follows, and nothing in the file system changes.
C10_InvalidCallHasNoEffect ==
  [][\A p \in Procs :
       (calls' # calls) =>
         \A ns \in NamespaceArgs : \A cmd \in CommandArgs : \A ver \in VersionArgs :
         \A source \in BOOLEAN : \A update \in BOOLEAN :
           (/\ \/ ns = "" \/ cmd = <<>> \/ ver = <<>> \/ ver = <<"junk">>
               \/ ~source \/ update
            /\ GetCall(p, ns, cmd, ver, source, update))
             => /\ pc'[p] = "done"
                /\ err'[p] # ""
                /\ UNCHANGED <<fsvars, returned>>]_vars

\* A Get with the update option returned its error before the cache directory
\* was ever created.
C10_Witness ==
  \E p \in Procs :
    pc[p] = "done" /\ err[p] = "WithUpdate not implemented" /\ ~cacheDir

C12_CorruptFileIsReported ==
  \A p \in Procs :
    (/\ pc[p] = "cleanup"
     /\ \E l \in links :
          /\ l.ns = arg[p].ns
          /\ HasPrefix(l.name, arg[p].cmd \o <<"-">>)
          /\ ~NewVersion(TrimPrefix(l.name, arg[p].cmd \o <<"-">>)).ok)
      => /\ err[p] = "not of the expected form"
         /\ LinkAt(arg[p].ns, arg[p].cmd) = {}

\* C13: every link that a step creates, removes or retargets is in the
\* namespace of the Get call that takes the step; the links of every other
\* namespace stay as they are.
C13_OtherNamespacesKept ==
  [][\A l \in (links' \ links) \cup (links \ links') :
       \E p \in Procs : pc'[p] # pc[p] /\ arg[p].ns = l.ns]_vars

\* A Get for namespace "b" has run link while namespace "a" held links, and
\* both namespaces hold links.
C13_Witness ==
  \E p \in Procs :
    /\ pc[p] = "cleanup"
    /\ arg[p].ns = "b"
    /\ \E l \in links : l.ns = "a"
    /\ \E l \in links : l.ns = "b"

\* C14: when cache is called with a non-empty checksum under which a cache
\* entry exists, its step downloads nothing and changes no file, and it
\* returns to Get that same checksum and a cleanup function that can be
\* called, Get going on to link.
C14_CacheHitReturnsDigest ==
  [][\A p \in Procs :
       (pc[p] = "cache" /\ cached(sum[p]) /\ pc'[p] # pc[p])
         => /\ pc'[p] = "mkdir"
            /\ sum'[p] = sum[p]
            /\ hasDone'[p]
            /\ files' = files]_vars

\* C15: every temporary file in the cache directory is that of a Get call
\* still running: a call that has returned, with or without an error, has
\* left none behind.
C15_NoPartialAfterReturn ==
  \A f \in files :
    f.name[1] = "partial" => \E p \in Procs : InFlight(p) /\ tmp[p] = f.name[2]

\* C16: when a Get, no other call being in progress, has its cache entry and
\* has run link for a version higher than every other version linked for its
\* (namespace, command), whose unversioned link exists, it got no error and
\* the unversioned link has the target of its versioned link.
C16_UnversionedIsReplaced ==
  \A p \in Procs :
    (pc[p] = "cleanup" /\ Alone(p)) =>
      LET others == {l \in VersionedLinks(arg[p].ns, arg[p].cmd) : l.name # path[p].name}
      IN  (/\ others # {}
           /\ LinkAt(arg[p].ns, arg[p].cmd) # {}
           /\ \A l \in others :
                GreaterThan(NewVersion(arg[p].ver).v, VersionOf(l.name, arg[p].cmd)))
            => /\ err[p] = ""
               /\ \E u \in LinkAt(arg[p].ns, arg[p].cmd) :
                    \E l \in LinkAt(path[p].ns, path[p].name) : u.target = l.target

\* C17: two Get calls that are running at once, each with a temporary file
\* chosen by cache, have different temporary files.
C17_TemporaryNamesDiffer ==
  \A p \in Procs : \A q \in Others(p) :
    (InFlight(p) /\ InFlight(q) /\ tmp[p] > 0 /\ tmp[q] > 0) => tmp[p] # tmp[q]

\* C18: every link in the namespace directories has the target
\* ../.cache/<digest> with a digest that is not empty and under which the
\* cache directory holds an entry.
C18_LinksTargetEntries ==
  \A l \in links :
    /\ Len(l.target) = 3
    /\ l.target[1] = ".." /\ l.target[2] = ".cache"
    /\ l.target[3] # EmptySum
    /\ Exists(SumName(l.target[3]))

\* A link whose file name is a command's name.
IsUnversioned(l) == l.name \in {LinkName(cmd, <<>>) : cmd \in CommandArgs \ {<<>>}}

\* The versions whose versioned links, among the links ls, have the target
\* of unversioned link u of the same namespace and command.
TargetVersions(ls, u) ==
  {VersionOf(l.name, u.name) :
     l \in {k \in ls : /\ k.ns = u.ns
                       /\ HasPrefix(k.name, u.name \o <<"-">>)
                       /\ NewVersion(TrimPrefix(k.name, u.name \o <<"-">>)).ok
                       /\ k.target = u.target}}

\* C19: no step takes the unversioned link of a (namespace, command) from
\* the content of a version to the content of versions that are all lower.
C19_UnversionedNeverLower ==
  [][\A u \in links : \A w \in links' :
       (/\ IsUnversioned(u)
        /\ w.ns = u.ns /\ w.name = u.name
        /\ TargetVersions(links, u) # {}
        /\ TargetVersions(links', w) # {})
         => ~GreaterThan(Highest(TargetVersions(links, u)),
                         Highest(TargetVersions(links', w)))]_vars

\* A Get for v1.0.0 has run link while the unversioned link of its
\* (namespace, command) was at the content of v1.2.0.
C19_Witness ==
  \E p \in Procs :
    /\ pc[p] = "cleanup"
    /\ arg[p].ver = <<"v1.0.0">>
    /\ \E u \in LinkAt(arg[p].ns, arg[p].cmd) :
         TargetVersions(links, u) = {<<1, 2, 0>>}

\* C20: a Get for a triple at whose versioned path a file system entry
\* exists, whatever it is and whatever it points to, returns that path
\* without error in one step, the resolver not called, the cache directory's
\* files and all links and directories unchanged.
C20_ExistingEntryIsReturned ==
  [][(calls' # calls) =>
       \A p \in Procs : \A t \in ValidTriples :
         (/\ LinkAt(Path(t.ns, t.cmd, t.ver).ns, Path(t.ns, t.cmd, t.ver).name) # {}
          /\ GetCall(p, t.ns, t.cmd, t.ver, TRUE, FALSE))
           => /\ pc'[p] = "done"
              /\ err'[p] = ""
              /\ path'[p] = Path(t.ns, t.cmd, t.ver)
              /\ UNCHANGED <<files, nsDirs, links>>]_vars

\* C21: when the resolver returns an error, Get returns that error in the
\* same step: no checksum is fetched, nothing is downloaded, and the cache
\* directory's files, the namespace directories and the links are unchanged.
C21_ResolverErrorIsReturned ==
  [][\A p \in Procs :
       (pc[p] = "source" /\ pc'[p] # pc[p]) =>
         \A src \in SourceResults : \A chk \in ChecksumResults :
           (src.err # "" /\ GetSourceWith(p, src, chk))
             => /\ pc'[p] = "done"
                /\ err'[p] = src.err
                /\ UNCHANGED <<fsvars, returned>>]_vars

\* A Get has returned the resolver's error, with nothing in the cache
\* directory and no link.
C21_Witness ==
  \E p \in Procs :
    /\ pc[p] = "done" /\ err[p] = "source error"
    /\ cacheDir /\ files = {} /\ links = {} /\ nsDirs = {}

\* C22: when the binary endpoint answers with a status other than 200 or
\* with a Content-Type other than the expected one, download returns an
\* error with no file created, and Get returns an error in the same step,
\* the cache directory's files, the namespace directories and the links
\* unchanged.
C22_BadResponseCreatesNothing ==
  [][\A p \in Procs :
       (pc[p] = "download" /\ pc'[p] # pc[p]) =>
         \A res \in {"status", "content type"} :
           DownloadWith(p, res)
             => /\ pc'[p] = "done"
                /\ err'[p] # ""
                /\ UNCHANGED <<files, nsDirs, links, returned>>]_vars

\* A Get has returned the error of the request, with nothing in the cache
\* directory and no link.
C22_Witness ==
  \E p \in Procs :
    /\ pc[p] = "done" /\ err[p] = "http error"
    /\ files = {} /\ links = {} /\ nsDirs = {}

\* C23: every running Get call returns, a path or an error, and until then
\* each of its steps takes it to a later step of its text: the resolver,
\* the checksum fetch, the download and link are each run at most once.
C23_GetReturnsAfterOnePass ==
  /\ \A p \in Procs : InFlight(p) ~> pc[p] = "done"
  /\ [][\A p \in Procs :
          (InFlight(p) /\ pc'[p] # pc[p]) => Rank(pc'[p]) > Rank(pc[p])]_vars

\* C24: when a Get has its cache entry and has run link for a command whose
\* namespace directory holds links of other commands only, besides the links
\* this call made, it got no error and the command's unversioned link has the
\* target of the call's versioned link: the other commands' links, even of a
\* command named <command>-bar, made link neither fail nor find a newer
\* version.
C24_CommandsIndependent ==
  \A p \in Procs :
    pc[p] = "cleanup" =>
      LET here == {l \in links : l.ns = arg[p].ns}
          mine == {l \in here : \/ l.name = LinkName(arg[p].cmd, <<>>)
                                \/ \E ver \in VersionArgs \ {<<>>} :
                                     l.name = LinkName(arg[p].cmd, ver)}
      IN  (/\ here \ mine # {}
           /\ \A l \in mine : l.name \in {LinkName(arg[p].cmd, <<>>), path[p].name})
            => /\ err[p] = ""
               /\ \E l \in LinkAt(path[p].ns, path[p].name) :
                    \E u \in LinkAt(arg[p].ns, arg[p].cmd) : u.target = l.target
====
